---- MODULE Spec2Model ----
(***************************************************************************)
(* A model of spiral_animator.py: the frame store, the scene's displayed   *)
(* pixmap, the drawing handlers, flood fill and the QUndoStack of          *)
(* DrawCommand entries.                                                    *)
(*                                                                         *)
(* A pixmap is a function from pixel positions to premultiplied ARGB       *)
(* pixels <<r, g, b, a>> (QPixmap stores images that have alpha pixels as  *)
(* ARGB32_Premultiplied).  Frame indices are 0-based as in the source; the *)
(* frame list is a sequence, so frame i is frames[i + 1].                  *)
(***************************************************************************)
EXTENDS Integers, Sequences, FiniteSets, TLC

VARIABLES
    frames,               \* AnimatorApp.frames
    current_frame_index,  \* AnimatorApp.current_frame_index
    canvas_size,          \* AnimatorApp.canvas_size, <<width, height>>
    pixmap,               \* DrawingScene.current_pixmap_item's pixmap
    drawing,              \* DrawingScene.drawing
    pixmap_before_draw,   \* DrawingScene.pixmap_before_draw
    settings,             \* AnimatorApp.settings: tool, color, opacity
    is_playing,           \* AnimatorApp.is_playing
    is_panning,           \* AnimatorApp.is_panning
    is_recording,         \* AnimatorApp.is_recording
    canvas_view,          \* ZoomableGraphicsView: resizing, resize_edge, last_pos
    undo_stack,           \* AnimatorApp.undo_stack: commands and index
    left_down,            \* the left mouse button is held (input device)
    crashed,              \* an exception escaped a Qt virtual call
    spray,                \* _spray_paint: size, centre, marks made, last point
    last                  \* history variable: the last handler that changed
                          \* the undo stack or the active frame index

vars == <<frames, current_frame_index, canvas_size, pixmap, drawing,
          pixmap_before_draw, settings, is_playing, is_panning, is_recording,
          canvas_view,
          undo_stack, left_down, crashed, spray, last>>

(***************************************************************************)
(* Bounds of the model.                                                    *)
(***************************************************************************)
\* Width in pixels of the canvas of the flood-fill model.
FillW == 2
\* Its height: the two rows stand for the 600 of QSize(800, 600).
FillH == 2
\* Largest number of fills the flood-fill model records.
MaxFills == 1
\* Largest number of frames the model adds.
MaxFrames == 2
\* Largest number of commands the model pushes on the undo stack.
MaxHist == 2
\* Longest run of edits the round-trip claims try from a state.
MaxEdits == 2
\* Most events the stroke claims put between a press and its release.
MaxBetween == 2
\* Largest width, in pixels, the resize model lets the canvas grow to.
MaxWide == 2
\* Largest height, in pixels, the resize model lets the canvas grow to.
MaxTall == 1
\* Largest number of commands on the undo stack of the resize model.
MaxResizeHist == 1
\* Largest pen size of the spray model.
MaxSize == 3
\* Number of values random.random() takes in the spray model: k / RandSteps
\* for k in 0..RandSteps - 1.
RandSteps == 4

(***************************************************************************)
(* Pixels and colours.                                                     *)
(***************************************************************************)
\* Python's None, where a pixmap is expected (an empty function, so that it
\* compares with pixmaps).
None == <<>>

Transparent == <<0, 0, 0, 0>>

\* QColor('black') and a second colour the colour dialog can return.
Black == <<0, 0, 0>>
Rust == <<200, 100, 50>>
Colors == {Black, Rust}

\* Opacity slider values the flood-fill model chooses from.
OpacityChoices == {0, 50, 100}

\* The tools the model selects: pencil, spray and eraser take the same
\* branches as brush in every handler modelled here.
Tools == {"brush", "fill"}

\* qt_div_255
div255(x) == (x + (x \div 256) + 128) \div 256

\* QColor.setAlphaF(opacity / 100.0) followed by QColor.alpha()
AlphaOf(opacity) ==
    LET a16 == (opacity * 65535 * 2 + 100) \div 200
    IN  (a16 - (a16 \div 256) + 128) \div 256

\* The colour a pen or a fill uses: settings['color'] with the opacity's alpha.
SettingsColor(st) ==
    <<st.color[1], st.color[2], st.color[3], AlphaOf(st.opacity)>>

\* qPremultiply: straight RGBA to the stored premultiplied pixel.
qPremultiply(c) ==
    <<div255(c[1] * c[4]), div255(c[2] * c[4]), div255(c[3] * c[4]), c[4]>>

\* qUnpremultiply: the stored premultiplied pixel to straight RGBA.
qUnpremultiply(p) ==
    IF p[4] = 255 THEN p
    ELSE IF p[4] = 0 THEN Transparent
    ELSE LET inv == 16711935 \div p[4]
         IN  <<(p[1] * inv + 32768) \div 65536,
               (p[2] * inv + 32768) \div 65536,
               (p[3] * inv + 32768) \div 65536,
               p[4]>>

\* QPainter source-over of a premultiplied source pixel onto a stored pixel.
SourceOver(src, dst) ==
    <<src[1] + div255(dst[1] * (255 - src[4])),
      src[2] + div255(dst[2] * (255 - src[4])),
      src[3] + div255(dst[3] * (255 - src[4])),
      src[4] + div255(dst[4] * (255 - src[4]))>>

(***************************************************************************)
(* Pixmaps.                                                                *)
(***************************************************************************)
Pos(size) == (0..(size[1] - 1)) \X (0..(size[2] - 1))

\* QSize(800, 600), scaled down to one pixel for the model of the frame
\* store and the undo stack (the flood-fill model has its own canvas).
CanvasSize == <<1, 1>>

\* QPixmap(size) filled with Qt.GlobalColor.transparent
BlankPixmap(size) == [q \in Pos(size) |-> Transparent]

\* The 4-neighbours of a pixel: structure [[0,1,0],[1,1,1],[0,1,0]].
Neighbours4(q) ==
    {<<q[1] + 1, q[2]>>, <<q[1] - 1, q[2]>>, <<q[1], q[2] + 1>>, <<q[1], q[2] - 1>>}

\* The 8-neighbours of a pixel: what scipy's label connects when it is given
\* a full 3x3 structure.
Neighbours8(q) ==
    {<<q[1] + dx, q[2] + dy>> : dx \in {-1, 0, 1}, dy \in {-1, 0, 1}} \ {q}

Structure(q) == Neighbours4(q)

\* scipy.ndimage.label: the component of `mask` that holds the pixels `seed`,
\* grown one ring of neighbours at a time.
RECURSIVE Component(_, _)
Component(mask, seed) ==
    LET grown == seed \cup {q \in mask : \E r \in seed : q \in Structure(r)}
    IN  IF grown = seed THEN seed ELSE Component(mask, grown)

(***************************************************************************)
(* The program state as one record, so that handlers compose.              *)
(***************************************************************************)
St ==
    [frames |-> frames, current_frame_index |-> current_frame_index,
     canvas_size |-> canvas_size, pixmap |-> pixmap, drawing |-> drawing,
     pixmap_before_draw |-> pixmap_before_draw, settings |-> settings,
     is_playing |-> is_playing, is_panning |-> is_panning,
     is_recording |-> is_recording,
     canvas_view |-> canvas_view,
     undo_stack |-> undo_stack, left_down |-> left_down, crashed |-> crashed]

\* ZoomableGraphicsView.__init__: not resizing, no edge under the cursor.
\* resize_edge is the set of sides its name holds ('topleft' holds two), and
\* the empty set where the source has None.
ViewConstructed == [resizing |-> FALSE, resize_edge |-> {}, last_pos |-> <<0, 0>>]

\* AnimatorApp.__init__ up to the call of add_new_frame
Constructed(size) ==
    [frames |-> <<>>, current_frame_index |-> -1, canvas_size |-> size,
     pixmap |-> None, drawing |-> FALSE, pixmap_before_draw |-> None,
     settings |-> [tool |-> "brush", color |-> Black, opacity |-> 100],
     is_playing |-> FALSE, is_panning |-> FALSE, is_recording |-> FALSE,
     canvas_view |-> ViewConstructed,
     undo_stack |-> [commands |-> <<>>, index |-> 0],
     left_down |-> FALSE, crashed |-> FALSE]

ValidIndex(s) ==
    0 <= s.current_frame_index /\ s.current_frame_index < Len(s.frames)

\* AnimatorApp.refresh_scene_display with DrawingScene.set_frame: addPixmap
\* raises on a frame that is None, and the exception aborts the application.
refresh_scene_display(s) ==
    IF ~ValidIndex(s) THEN s
    ELSE IF s.frames[s.current_frame_index + 1] = None
         THEN [s EXCEPT !.crashed = TRUE]
         ELSE [s EXCEPT !.pixmap = s.frames[s.current_frame_index + 1]]

\* A frame switch that does not save the displayed pixmap.
NoSave(s) == s

\* "Save the current drawing back to its pixmap": frames[i] = get_current_pixmap().copy()
SaveCurrent(s) ==
    IF s.current_frame_index >= 0 /\ s.pixmap # None
    THEN [s EXCEPT !.frames[s.current_frame_index + 1] = s.pixmap]
    ELSE s

(***************************************************************************)
(* DrawCommand and QUndoStack.                                             *)
(***************************************************************************)
DrawCommand(frame_index, pixmap_before, pixmap_after) ==
    [frame_index |-> frame_index, pixmap_before |-> pixmap_before,
     pixmap_after |-> pixmap_after]

\* The buffer a command's undo() and redo() store into the frame list.
UndoBuffer(cmd) == cmd.pixmap_before
RedoBuffer(cmd) == cmd.pixmap_after

\* AnimatorApp.update_timeline_thumbnail: pixmap.scaled raises on a frame
\* that is None.
update_timeline_thumbnail(s, index) ==
    IF 0 <= index /\ index < Len(s.frames) /\ s.frames[index + 1] = None
    THEN [s EXCEPT !.crashed = TRUE]
    ELSE s

\* DrawCommand.undo
CommandUndo(s, cmd) ==
    LET s1 == [s EXCEPT !.frames[cmd.frame_index + 1] = UndoBuffer(cmd)]
        s2 == IF cmd.frame_index = s.current_frame_index
              THEN refresh_scene_display(s1) ELSE s1
    IN  update_timeline_thumbnail(s2, cmd.frame_index)

\* DrawCommand.redo
\* A redo that writes the active frame instead of the command's frame.
RedoOnActive(s, cmd) ==
    LET s1 == [s EXCEPT !.frames[s.current_frame_index + 1] = RedoBuffer(cmd)]
    IN  update_timeline_thumbnail(refresh_scene_display(s1), s.current_frame_index)

CommandRedo(s, cmd) ==
    LET s1 == [s EXCEPT !.frames[cmd.frame_index + 1] = RedoBuffer(cmd)]
        s2 == IF cmd.frame_index = s.current_frame_index
              THEN refresh_scene_display(s1) ELSE s1
    IN  update_timeline_thumbnail(s2, cmd.frame_index)

canUndo(s) == s.undo_stack.index > 0
canRedo(s) == s.undo_stack.index < Len(s.undo_stack.commands)

\* A push that forgets to drop the commands after the index.
KeptAll(stack) == stack.commands

\* The commands QUndoStack.push keeps before it appends the new one.
KeptOnPush(stack) == SubSeq(stack.commands, 1, stack.index)

\* A push that only records the command and does not execute it.
PushNoRedo(s, cmd) ==
    [s EXCEPT !.undo_stack =
        [commands |-> Append(KeptOnPush(s.undo_stack), cmd),
         index |-> s.undo_stack.index + 1]]

\* QUndoStack.push: executes the command (redo), drops the commands after
\* the index, appends the command and moves the index onto it.
push(s, cmd) ==
    LET s1 == CommandRedo(s, cmd)
    IN  [s1 EXCEPT !.undo_stack =
            [commands |-> Append(KeptOnPush(s.undo_stack), cmd),
             index |-> s.undo_stack.index + 1]]

\* QUndoStack.undo
undo(s) ==
    IF ~canUndo(s) THEN s
    ELSE LET s1 == CommandUndo(s, s.undo_stack.commands[s.undo_stack.index])
         IN  IF s1.crashed THEN s1
             ELSE [s1 EXCEPT !.undo_stack.index = s.undo_stack.index - 1]

\* QUndoStack.redo
redo(s) ==
    IF ~canRedo(s) THEN s
    ELSE LET s1 == CommandRedo(s, s.undo_stack.commands[s.undo_stack.index + 1])
         IN  [s1 EXCEPT !.undo_stack.index = s.undo_stack.index + 1]

\* A clear that leaves the stack as it is.
KeepStack(s) == s

\* QUndoStack.clear
ClearStack(s) == [s EXCEPT !.undo_stack = [commands |-> <<>>, index |-> 0]]

(***************************************************************************)
(* DrawingScene: strokes and flood fill.                                   *)
(***************************************************************************)
\* What one painted pixel becomes under the current tool: the eraser's
\* DestinationOut with an opaque pen, or the pen colour composited over it.
Painted(st, dst) ==
    IF st.tool = "eraser" THEN Transparent
    ELSE SourceOver(qPremultiply(SettingsColor(st)), dst)

\* DrawingScene.draw_line: paints the pixels `cover` that the segment covers
\* on the displayed pixmap (the frame list is not touched).
draw_line(s, cover) ==
    [s EXCEPT !.pixmap =
        [q \in DOMAIN s.pixmap |->
            IF q \in cover THEN Painted(s.settings, s.pixmap[q]) ELSE s.pixmap[q]]]

\* The straight RGBA array of a pixmap: qimage_to_numpy(pixmap.toImage())
qimage_to_numpy(pm) == [q \in DOMAIN pm |-> qUnpremultiply(pm[q])]

\* QPixmap.fromImage(numpy_to_qimage(arr))
numpy_to_pixmap(arr) == [q \in DOMAIN arr |-> qPremultiply(arr[q])]

\* The guard "target is already the fill color" of flood_fill.
SameColor(target_rgba, fill_rgba) == target_rgba = fill_rgba

\* The pixels flood_fill recolours from start point p: fill_mask.
FillMask(pm, p) ==
    LET arr == qimage_to_numpy(pm)
        mask == {q \in DOMAIN pm : arr[q] = arr[p]}
    IN  Component(mask, {p})

\* A fill command recorded for the frame after the active one.
FillCommandNextFrame(s, pixmap_after) ==
    [frame_index |-> (s.current_frame_index + 1) % Len(s.frames),
     pixmap_before |-> s.pixmap_before_draw, pixmap_after |-> pixmap_after]

\* A fill command whose "before" is taken after the fill.
FillCommandLateBefore(s, pixmap_after) ==
    [frame_index |-> s.current_frame_index,
     pixmap_before |-> pixmap_after, pixmap_after |-> pixmap_after]

\* The command flood_fill records.
FillCommand(s, pixmap_after) ==
    DrawCommand(s.current_frame_index, s.pixmap_before_draw, pixmap_after)

\* A flood fill without the bounds check: a point off the canvas wraps
\* round to a pixel, as a negative numpy index does.
FillWrapped(s, p) ==
    LET q == <<p[1] % s.canvas_size[1], p[2] % s.canvas_size[2]>>
        target == qUnpremultiply(s.pixmap[q])
        fill == SettingsColor(s.settings)
        arr == qimage_to_numpy(s.pixmap)
        fill_mask == FillMask(s.pixmap, q)
        filled == [r \in DOMAIN arr |-> IF r \in fill_mask THEN fill ELSE arr[r]]
        pixmap_after == numpy_to_pixmap(filled)
        s1 == push(s, FillCommand(s, pixmap_after))
    IN  IF SameColor(target, fill) THEN s
        ELSE [s1 EXCEPT !.pixmap = pixmap_after]

\* DrawingScene.flood_fill.  image.pixelColor and convertToFormat(RGBA8888)
\* both read a pixel through qUnpremultiply here, so the clicked pixel is
\* always in the mask and the "clicked_label == 0" return is never taken.
flood_fill(s, p) ==
    IF s.pixmap = None \/ p \notin DOMAIN s.pixmap THEN s
    ELSE LET target == qUnpremultiply(s.pixmap[p])
             fill == SettingsColor(s.settings)
         IN  IF SameColor(target, fill) THEN s
             ELSE LET arr == qimage_to_numpy(s.pixmap)
                      fill_mask == FillMask(s.pixmap, p)
                      filled == [q \in DOMAIN arr |->
                                    IF q \in fill_mask THEN fill ELSE arr[q]]
                      pixmap_after == numpy_to_pixmap(filled)
                      s1 == push(s, FillCommand(s, pixmap_after))
                  IN  [s1 EXCEPT !.pixmap = pixmap_after]

\* DrawingScene.mousePressEvent (left button)
mousePressEvent(s, p) ==
    LET s0 == [s EXCEPT !.left_down = TRUE]
    IN  IF s.is_panning \/ s.canvas_view.resizing THEN s0
        ELSE IF s.settings.tool = "fill"
             THEN flood_fill([s0 EXCEPT !.pixmap_before_draw = s.pixmap], p)
             ELSE IF ~s.is_playing
                  THEN [s0 EXCEPT !.drawing = TRUE, !.pixmap_before_draw = s.pixmap]
                  ELSE [s0 EXCEPT !.drawing = TRUE]

\* DrawingScene.mouseMoveEvent
mouseMoveEvent(s, cover) ==
    IF s.is_panning THEN s
    ELSE IF s.drawing /\ s.left_down /\ s.settings.tool # "fill"
         THEN draw_line(s, cover)
         ELSE s

\* The condition under which mouseReleaseEvent records the stroke.
RecordsStroke(s) == ~s.is_playing /\ s.settings.tool # "fill"

\* DrawingScene.mouseReleaseEvent (left button)
mouseReleaseEvent(s) ==
    LET s0 == [s EXCEPT !.left_down = FALSE]
    IN  IF s.is_panning THEN s0
        ELSE IF ~s.drawing THEN s0
        ELSE LET s1 == [s0 EXCEPT !.drawing = FALSE]
             IN  IF RecordsStroke(s)
                 THEN push(s1, DrawCommand(s.current_frame_index,
                                           s.pixmap_before_draw, s.pixmap))
                 ELSE s1

(***************************************************************************)
(* AnimatorApp: frames, playback, settings.                                *)
(***************************************************************************)
InsertAt(seq, i, x) == SubSeq(seq, 1, i) \o <<x>> \o SubSeq(seq, i + 1, Len(seq))

\* A removal that takes the last element whatever the index.
RemoveLast(seq, i) == SubSeq(seq, 1, Len(seq) - 1)

RemoveAt(seq, i) == SubSeq(seq, 1, i - 1) \o SubSeq(seq, i + 1, Len(seq))

\* A frame switch that forgets to clear the undo stack.
StackKept(s) == s

\* What set_current_frame does to the undo stack once it has switched.
StackAfterSwitch(s) == ClearStack(s)

\* AnimatorApp.set_current_frame
set_current_frame(s, index) ==
    IF ~(0 <= index /\ index < Len(s.frames)) THEN s
    ELSE IF s.current_frame_index = index THEN s
    ELSE LET s1 == IF ValidIndex(s) THEN SaveCurrent(s) ELSE s
             s2 == refresh_scene_display([s1 EXCEPT !.current_frame_index = index])
         IN  StackAfterSwitch(s2)

\* AnimatorApp.add_new_frame
add_new_frame(s) ==
    LET s1 == SaveCurrent(s)
        s2 == [s1 EXCEPT !.frames =
                  InsertAt(s1.frames, s.current_frame_index + 1,
                           BlankPixmap(s.canvas_size))]
    IN  set_current_frame(s2, s.current_frame_index + 1)

\* AnimatorApp.duplicate_current_frame
duplicate_current_frame(s) ==
    IF s.current_frame_index < 0 THEN s
    ELSE LET s1 == SaveCurrent(s)
             s2 == [s1 EXCEPT !.frames =
                       InsertAt(s1.frames, s.current_frame_index + 1,
                                s1.frames[s.current_frame_index + 1])]
         IN  set_current_frame(s2, s.current_frame_index + 1)

\* A deletion that leaves the active index where it was.
KeepIndex(a, b) == a

Min(a, b) == IF a <= b THEN a ELSE b

\* AnimatorApp.delete_current_frame
delete_current_frame(s) ==
    IF s.is_recording THEN s
    ELSE IF Len(s.frames) > 1 /\ s.current_frame_index >= 0
    THEN LET s1 == ClearStack([s EXCEPT !.frames =
                        RemoveAt(s.frames, s.current_frame_index + 1)])
         IN  refresh_scene_display(
                 [s1 EXCEPT !.current_frame_index =
                     Min(s.current_frame_index, Len(s1.frames) - 1)])
    ELSE s

\* AnimatorApp.new_animation, confirmed in the dialog
new_animation(s, size) ==
    IF s.is_recording THEN s
    ELSE add_new_frame(ClearStack(
            [s EXCEPT !.frames = <<>>, !.current_frame_index = -1,
                      !.canvas_size = size]))

\* The snapshot clear_current_frame records as the command's "before".
ClearBefore(s) == s.frames[s.current_frame_index + 1]

\* AnimatorApp.clear_current_frame
clear_current_frame(s) ==
    IF s.current_frame_index < 0 THEN s
    ELSE LET pixmap_after == BlankPixmap(s.canvas_size)
             s1 == push(s, DrawCommand(s.current_frame_index, ClearBefore(s),
                                       pixmap_after))
         IN  refresh_scene_display(
                 [s1 EXCEPT !.frames[s.current_frame_index + 1] = pixmap_after])

\* A pixel of an imported image: opaque black.
ImagePixel == <<0, 0, 0, 255>>

\* The condition under which paste_image_on_current_frame records a command.
RecordsPaste(s) == ~s.is_playing

\* AnimatorApp.paste_image_on_current_frame: the scaled image covers the
\* pixels `cover` of the stored frame.
paste_image_on_current_frame(s, cover) ==
    LET pixmap_before == s.frames[s.current_frame_index + 1]
        pixmap_after == [q \in DOMAIN pixmap_before |->
                            IF q \in cover THEN SourceOver(ImagePixel, pixmap_before[q])
                            ELSE pixmap_before[q]]
        cmd == DrawCommand(s.current_frame_index, pixmap_before, pixmap_after)
        s1 == IF RecordsPaste(s) THEN push(s, cmd) ELSE s
    IN  refresh_scene_display(
            [s1 EXCEPT !.frames[s.current_frame_index + 1] = pixmap_after])

\* AnimatorApp.toggle_playback
toggle_playback(s) ==
    IF s.is_playing THEN [s EXCEPT !.is_playing = FALSE]
    ELSE [SaveCurrent(s) EXCEPT !.is_playing = TRUE]

\* What next_frame does to the undo stack: nothing ("a lightweight frame
\* change that doesn't clear undo").
StackAfterTick(s) == s

\* A tick that leaves the active index where it is.
StayIndex(index, n) == index

\* next_idx = (self.current_frame_index + 1) % len(self.frames)
NextIndex(index, n) == (index + 1) % n

\* AnimatorApp.next_frame, the playback timer's slot
next_frame(s) ==
    IF Len(s.frames) = 0 THEN s
    ELSE LET s1 == IF ValidIndex(s) THEN SaveCurrent(s) ELSE s
             next_idx == NextIndex(s.current_frame_index, Len(s.frames))
         IN  StackAfterTick(
                 refresh_scene_display([s1 EXCEPT !.current_frame_index = next_idx]))

\* AnimatorApp.start_live_recording with a path chosen and a writer opened
start_live_recording(s) ==
    IF s.is_recording THEN s
    ELSE LET s1 == [s EXCEPT !.is_recording = TRUE]
         IN  IF ~s1.is_playing THEN toggle_playback(s1) ELSE s1

\* AnimatorApp.stop_recording
stop_recording(s) ==
    IF ~s.is_recording THEN s ELSE [s EXCEPT !.is_recording = FALSE]

\* AnimatorApp.set_tool
set_tool(s, tool) == [s EXCEPT !.settings.tool = tool]

\* AnimatorApp.select_color with a valid colour chosen
select_color(s, color) == [s EXCEPT !.settings.color = color]

\* AnimatorApp.update_setting('opacity', value)
update_setting(s, value) == [s EXCEPT !.settings.opacity = value]

(***************************************************************************)
(* Canvas resize: the view's edge drag and finalize_canvas_resize.         *)
(***************************************************************************)
\* min_size = QSize(100, 100), on the scale that makes 800 x 600 one pixel.
MinSide == 1

\* A size that is not held at the minimum.
NoClamp(a, b) == a

Max(a, b) == IF a >= b THEN a ELSE b

\* A transparent pixmap of new_size with old_pixmap drawn at (shift_x, shift_y).
DrawnAt(old_pixmap, new_size, shift_x, shift_y) ==
    [q \in Pos(new_size) |->
        LET o == <<q[1] - shift_x, q[2] - shift_y>>
        IN  IF o \in DOMAIN old_pixmap
            THEN SourceOver(old_pixmap[o], Transparent)
            ELSE Transparent]

\* The content shift of a drag of the left (top) edge, "adjusted if clamped".
ShiftFor(old_side, new_side) == old_side - new_side

\* What finalize_canvas_resize does to the undo stack.
StackAfterResize(s) == s

\* AnimatorApp.finalize_canvas_resize
finalize_canvas_resize(s, last_scene_pos, current_scene_pos, edge) ==
    LET old_w == s.canvas_size[1]
        old_h == s.canvas_size[2]
        delta_x == current_scene_pos[1] - last_scene_pos[1]
        delta_y == current_scene_pos[2] - last_scene_pos[2]
        w1 == IF "left" \in edge THEN old_w - delta_x ELSE old_w
        w2 == IF "right" \in edge THEN w1 + delta_x ELSE w1
        h1 == IF "top" \in edge THEN old_h - delta_y ELSE old_h
        h2 == IF "bottom" \in edge THEN h1 + delta_y ELSE h1
        new_w == Max(w2, MinSide)
        new_h == Max(h2, MinSide)
        shift_x == IF "left" \in edge THEN ShiftFor(old_w, new_w) ELSE 0
        shift_y == IF "top" \in edge THEN ShiftFor(old_h, new_h) ELSE 0
        new_size == <<new_w, new_h>>
    IN  IF new_w = old_w /\ new_h = old_h THEN s
        ELSE refresh_scene_display(StackAfterResize(
                [s EXCEPT !.canvas_size = new_size,
                          !.frames = [k \in 1..Len(s.frames) |->
                                         DrawnAt(s.frames[k], new_size,
                                                 shift_x, shift_y)]]))

\* ZoomableGraphicsView.mousePressEvent (left button): with an edge under
\* the cursor the press starts a resize and never reaches the scene.
view_mousePressEvent(s, pos) ==
    IF s.canvas_view.resize_edge # {}
    THEN [s EXCEPT !.canvas_view.resizing = TRUE,
                   !.canvas_view.last_pos = pos,
                   !.left_down = TRUE]
    ELSE mousePressEvent(s, pos)

\* ZoomableGraphicsView.mouseMoveEvent: `edge` is the edge the cursor is
\* near (none: the empty set), `cover` the pixels a stroke segment paints.
view_mouseMoveEvent(s, pos, edge, cover) ==
    IF s.canvas_view.resizing
    THEN [s EXCEPT !.canvas_view.last_pos = pos]
    ELSE LET s1 == IF ~(s.is_panning \/ s.drawing)
                   THEN [s EXCEPT !.canvas_view.resize_edge = edge]
                   ELSE s
         IN  mouseMoveEvent(s1, cover)

\* ZoomableGraphicsView.mouseReleaseEvent (left button)
view_mouseReleaseEvent(s, pos) ==
    IF s.canvas_view.resizing
    THEN LET s1 == finalize_canvas_resize(s, s.canvas_view.last_pos, pos,
                                          s.canvas_view.resize_edge)
         IN  [s1 EXCEPT !.canvas_view.resizing = FALSE,
                        !.canvas_view.resize_edge = {},
                        !.left_down = FALSE]
    ELSE mouseReleaseEvent(s)

(***************************************************************************)
(* Actions: one per handler.  A handler is enabled where the code gets     *)
(* past its early returns; the model stops at a crash and at its bounds.   *)
(***************************************************************************)
\* The history variable when the last step changed neither the undo stack
\* nor the active frame index.
NoLast == [op |-> "other", canUndo |-> FALSE, canRedo |-> FALSE]

Step(op, s) ==
    /\ ~crashed
    /\ Len(s.frames) <= MaxFrames
    /\ Len(s.undo_stack.commands) <= MaxHist
    /\ frames' = s.frames
    /\ current_frame_index' = s.current_frame_index
    /\ canvas_size' = s.canvas_size
    /\ pixmap' = s.pixmap
    /\ drawing' = s.drawing
    /\ pixmap_before_draw' = s.pixmap_before_draw
    /\ settings' = s.settings
    /\ is_playing' = s.is_playing
    /\ is_panning' = s.is_panning
    /\ is_recording' = s.is_recording
    /\ canvas_view' = s.canvas_view
    /\ undo_stack' = s.undo_stack
    /\ left_down' = s.left_down
    /\ crashed' = s.crashed
    /\ spray' = spray
    /\ last' = IF s.undo_stack # undo_stack
                   \/ s.current_frame_index # current_frame_index
                   \/ s.canvas_size # canvas_size
                THEN [op |-> op, canUndo |-> canUndo(St), canRedo |-> canRedo(St)]
                ELSE NoLast

\* Points a click can land on: every pixel, and one point left of the canvas.
ClickPoints == Pos(canvas_size) \cup {<<-1, 0>>}

\* Pixels one segment or one pasted image can cover: none, or any one pixel.
Covers == {{}} \cup {{q} : q \in Pos(canvas_size)}

MousePress(p) == ~left_down /\ Step("mousePressEvent", mousePressEvent(St, p))

MouseMove(cover) ==
    /\ ~is_panning /\ drawing /\ left_down /\ settings.tool # "fill"
    /\ Step("mouseMoveEvent", mouseMoveEvent(St, cover))

MouseRelease == left_down /\ Step("mouseReleaseEvent", mouseReleaseEvent(St))

Undo == canUndo(St) /\ Step("undo", undo(St))

Redo == canRedo(St) /\ Step("redo", redo(St))

SetCurrentFrame(index) ==
    /\ 0 <= index /\ index < Len(frames) /\ index # current_frame_index
    /\ Step("set_current_frame", set_current_frame(St, index))

AddNewFrame == Step("add_new_frame", add_new_frame(St))

DuplicateCurrentFrame ==
    current_frame_index >= 0 /\ Step("duplicate_current_frame", duplicate_current_frame(St))

DeleteCurrentFrame ==
    /\ Len(frames) > 1 /\ current_frame_index >= 0
    /\ Step("delete_current_frame", delete_current_frame(St))

NewAnimation == Step("new_animation", new_animation(St, CanvasSize))

ClearCurrentFrame ==
    current_frame_index >= 0 /\ Step("clear_current_frame", clear_current_frame(St))

PasteImage(cover) ==
    /\ current_frame_index >= 0
    /\ Step("paste_image_on_current_frame", paste_image_on_current_frame(St, cover))

TogglePlayback == Step("toggle_playback", toggle_playback(St))

\* The playback timer runs while is_playing.
NextFrame == is_playing /\ Len(frames) > 0 /\ Step("next_frame", next_frame(St))

SetTool(tool) == tool # settings.tool /\ Step("set_tool", set_tool(St, tool))

\* No spray burst has been made.
NoSpray == [size |-> 0, center |-> <<0, 0>>, made |-> 0, point |-> <<0, 0>>]

StartWith(s, burst) ==
    /\ frames = s.frames
    /\ current_frame_index = s.current_frame_index
    /\ canvas_size = s.canvas_size
    /\ pixmap = s.pixmap
    /\ drawing = s.drawing
    /\ pixmap_before_draw = s.pixmap_before_draw
    /\ settings = s.settings
    /\ is_playing = s.is_playing
    /\ is_panning = s.is_panning
    /\ is_recording = s.is_recording
    /\ canvas_view = s.canvas_view
    /\ undo_stack = s.undo_stack
    /\ left_down = s.left_down
    /\ crashed = s.crashed
    /\ spray = burst
    /\ last = NoLast

Start(s) == StartWith(s, NoSpray)

\* The state after AnimatorApp.__init__: one blank frame, shown in the scene.
Init == Start(add_new_frame(Constructed(CanvasSize)))

Next ==
    \/ \E p \in ClickPoints : MousePress(p)
    \/ \E cover \in Covers : MouseMove(cover)
    \/ MouseRelease
    \/ Undo
    \/ Redo
    \/ \E index \in 0..(MaxFrames - 1) : SetCurrentFrame(index)
    \/ AddNewFrame
    \/ DuplicateCurrentFrame
    \/ DeleteCurrentFrame
    \/ NewAnimation
    \/ ClearCurrentFrame
    \/ \E cover \in Covers : PasteImage(cover)
    \/ TogglePlayback
    \/ NextFrame
    \/ \E tool \in Tools : SetTool(tool)

Spec == Init /\ [][Next]_vars

(***************************************************************************)
(* The resize model: the window as constructed, with the view's edge drag  *)
(* next to brush strokes, clear, undo, redo, frame insertion and deletion  *)
(* and new animation.  The canvas grows to MaxWide x MaxTall pixels and the *)
(* undo stack to MaxResizeHist commands.                                   *)
(***************************************************************************)
\* The edges the cursor of the resize model gets near: two sides and one
\* corner.
Edges == {{"left"}, {"right"}, {"bottom", "right"}}

\* Scene positions of the cursor during an edge drag: one pixel apart.
DragPoints == {<<0, 0>>, <<1, 0>>, <<0, 1>>}

\* Where the button comes up: a drag point, or two pixels to the right of
\* the first one, which takes the left edge past the minimum width.
ReleasePoints == DragPoints \cup {<<2, 0>>}

InResizeBounds ==
    /\ canvas_size[1] <= MaxWide /\ canvas_size[2] <= MaxTall
    /\ Len(undo_stack.commands) <= MaxResizeHist

\* The cursor moves with no button held, onto an edge or off it.
Hover(edge) ==
    /\ ~left_down /\ edge # canvas_view.resize_edge
    /\ Step("view_mouseMoveEvent", view_mouseMoveEvent(St, <<0, 0>>, edge, {}))

ViewPress(pos) ==
    /\ ~left_down
    /\ Step("view_mousePressEvent", view_mousePressEvent(St, pos))
    /\ InResizeBounds'

\* The cursor moves while an edge is dragged.
ResizeMove(pos) ==
    /\ canvas_view.resizing /\ pos # canvas_view.last_pos
    /\ Step("view_mouseMoveEvent", view_mouseMoveEvent(St, pos, {}, {}))

ViewRelease(pos) ==
    /\ left_down
    /\ Step("view_mouseReleaseEvent", view_mouseReleaseEvent(St, pos))
    /\ InResizeBounds'

\* Clear Frame, while the undo stack of the resize model has room.
ResizeClear == ClearCurrentFrame /\ InResizeBounds'

NextResize ==
    \/ \E edge \in Edges \cup {{}} : Hover(edge)
    \/ \E pos \in DragPoints : ViewPress(pos)
    \/ \E pos \in DragPoints : ResizeMove(pos)
    \/ \E cover \in Covers : MouseMove(cover)
    \/ \E pos \in ReleasePoints : ViewRelease(pos)
    \/ Undo
    \/ Redo
    \/ AddNewFrame
    \/ DeleteCurrentFrame
    \/ NewAnimation
    \/ ResizeClear

SpecResize == Init /\ [][NextResize]_vars

(***************************************************************************)
(* The playback model: the window as constructed, with brush strokes,      *)
(* frame insertion, duplication, selection and deletion, new animation,    *)
(* playback with its timer, and live recording.                            *)
(***************************************************************************)
\* Delete Frame chosen from the menu, whatever the state.
DeleteRequested == Step("delete_current_frame", delete_current_frame(St))

StartLiveRecording ==
    ~is_recording /\ Step("start_live_recording", start_live_recording(St))

StopRecording == is_recording /\ Step("stop_recording", stop_recording(St))

NextPlay ==
    \/ \E p \in ClickPoints : MousePress(p)
    \/ \E cover \in Covers : MouseMove(cover)
    \/ MouseRelease
    \/ \E index \in 0..(MaxFrames - 1) : SetCurrentFrame(index)
    \/ AddNewFrame
    \/ DuplicateCurrentFrame
    \/ DeleteRequested
    \/ NewAnimation
    \/ TogglePlayback
    \/ NextFrame
    \/ StartLiveRecording
    \/ StopRecording

SpecPlay == Init /\ [][NextPlay]_vars

(***************************************************************************)
(* The timer model: playback with its timer, brush strokes started during  *)
(* playback, frame insertion and deletion.  The playback timer is a QTimer *)
(* started with 1000 // fps, fps in 1..60, and running for as long as      *)
(* is_playing: a tick that stays possible is taken.                        *)
(***************************************************************************)
\* The button goes down on the canvas while the animation plays.
PlayPress(p) == is_playing /\ MousePress(p)

NextTick ==
    \/ \E p \in ClickPoints : PlayPress(p)
    \/ \E cover \in Covers : MouseMove(cover)
    \/ MouseRelease
    \/ AddNewFrame
    \/ DeleteRequested
    \/ TogglePlayback
    \/ NextFrame

SpecTick == Init /\ [][NextTick]_vars /\ WF_vars(NextFrame)

(***************************************************************************)
(* The spray model: a stroke with the spray tool on the window as          *)
(* constructed.  Every mouse move of the stroke makes one burst of         *)
(* _spray_paint, and every pass of its loop one mark.  Coordinates are in  *)
(* units of 1 / SprayUnit of a pixel, so that the offsets are integers.    *)
(***************************************************************************)
SprayUnit == 2 * RandSteps

\* density = size * 2
SprayDensity(size) == size * 2

\* radius = size * 1.5
SprayRadius(size) == (size * 3 * SprayUnit) \div 2

\* (random.random() - 0.5) * radius * 2, for random.random() = k / RandSteps
SprayOffset(size, k) == ((2 * k - RandSteps) * SprayRadius(size)) \div RandSteps

\* QPointF.toPoint: each coordinate rounded to the nearest integer, halves
\* away from zero.
RoundCoord(v) ==
    IF v >= 0 THEN (2 * v + SprayUnit) \div (2 * SprayUnit)
    ELSE -((2 * (-v) + SprayUnit) \div (2 * SprayUnit))

toPoint(point) == <<RoundCoord(point[1]), RoundCoord(point[2])>>

\* One pass of the loop of _spray_paint: a point at a random offset from the
\* centre, drawn with the pen of the settings' colour.
spray_mark(s, burst, kx, ky) ==
    LET point == <<burst.center[1] * SprayUnit + SprayOffset(burst.size, kx),
                   burst.center[2] * SprayUnit + SprayOffset(burst.size, ky)>>
        q == toPoint(point)
    IN  [state |-> IF q \in DOMAIN s.pixmap
                   THEN [s EXCEPT !.pixmap[q] =
                            SourceOver(qPremultiply(SettingsColor(s.settings)), @)]
                   ELSE s,
         burst |-> [burst EXCEPT !.made = @ + 1, !.point = point]]

\* draw_line with the spray tool: a burst begins at the end point of the
\* mouse move.
SprayBurst(size, center) ==
    /\ drawing /\ left_down /\ settings.tool = "spray"
    /\ spray.made = SprayDensity(spray.size)
    /\ spray' = [size |-> size, center |-> center, made |-> 0,
                 point |-> <<center[1] * SprayUnit, center[2] * SprayUnit>>]
    /\ last' = NoLast
    /\ UNCHANGED <<frames, current_frame_index, canvas_size, pixmap, drawing,
                   pixmap_before_draw, settings, is_playing, is_panning,
                   is_recording, canvas_view, undo_stack, left_down, crashed>>

SprayMark(kx, ky) ==
    /\ spray.made < SprayDensity(spray.size)
    /\ LET r == spray_mark(St, spray, kx, ky)
       IN  /\ pixmap' = r.state.pixmap
           /\ spray' = r.burst
    /\ last' = NoLast
    /\ UNCHANGED <<frames, current_frame_index, canvas_size, drawing,
                   pixmap_before_draw, settings, is_playing, is_panning,
                   is_recording, canvas_view, undo_stack, left_down, crashed>>

\* The button is down on the canvas with the spray tool selected.
InitSpray ==
    StartWith(mousePressEvent(set_tool(add_new_frame(Constructed(CanvasSize)),
                                       "spray"), <<0, 0>>),
              NoSpray)

NextSpray ==
    \/ \E size \in 1..MaxSize, center \in ClickPoints : SprayBurst(size, center)
    \/ \E kx \in 0..(RandSteps - 1), ky \in 0..(RandSteps - 1) : SprayMark(kx, ky)

SpecSpray == InitSpray /\ [][NextSpray]_vars

(***************************************************************************)
(* The flood-fill model: two frames of FillW x FillH pixels, the second    *)
(* one active and drawn in black on transparent before the first fill, the *)
(* fill tool selected, and any colour and opacity; its steps are fill      *)
(* clicks.                                                                 *)
(***************************************************************************)
FillSize == <<FillW, FillH>>

\* The pixels of a frame before the first fill: transparent or opaque black.
DrawnPixels == {Transparent, <<0, 0, 0, 255>>}

\* What the frame that is not active holds: nothing, or black all over.
OtherFrames == {[q \in Pos(FillSize) |-> c] : c \in DrawnPixels}

FillStart(buffer, other, color, value) ==
    LET s0 == add_new_frame(add_new_frame(Constructed(FillSize)))
        s1 == update_setting(select_color(set_tool(s0, "fill"), color), value)
    IN  [s1 EXCEPT !.frames = <<other, buffer>>, !.pixmap = buffer]

InitFill ==
    \E buffer \in [Pos(FillSize) -> DrawnPixels], other \in OtherFrames,
       color \in Colors, value \in OpacityChoices :
        Start(FillStart(buffer, other, color, value))

FillPress(p) == undo_stack.index < MaxFills /\ MousePress(p)

NextFill ==
    \/ \E p \in ClickPoints : FillPress(p)
    \/ MouseRelease

SpecFill == InitFill /\ [][NextFill]_vars

(***************************************************************************)
(* Edits as the user makes them, composed from the handlers.               *)
(***************************************************************************)
\* A full stroke with the brush: press, one move over `cover`, release.
Stroke(s, cover) ==
    LET s0 == set_tool(s, "brush")
        q == CHOOSE q \in Pos(s.canvas_size) : TRUE
    IN  mouseReleaseEvent(mouseMoveEvent(mousePressEvent(s0, q), cover))

\* A click with the fill tool at p: press and release.
FillClick(s, p) == mouseReleaseEvent(mousePressEvent(set_tool(s, "fill"), p))

\* The edits tried from a state: strokes, fill clicks and Clear Frame.
Edits(s) ==
    {<<"stroke", {q}>> : q \in Pos(s.canvas_size)}
        \cup {<<"fill", q>> : q \in Pos(s.canvas_size)}
        \cup {<<"clear", {}>>}

ApplyEdit(s, e) ==
    CASE e[1] = "stroke" -> Stroke(s, e[2])
      [] e[1] = "fill" -> FillClick(s, e[2])
      [] e[1] = "clear" -> clear_current_frame(s)

\* The edit pushes a command: it is recorded.
Recorded(s, e) == ApplyEdit(s, e).undo_stack.index = s.undo_stack.index + 1

RECURSIVE ApplyRun(_, _)
ApplyRun(s, run) ==
    IF run = <<>> THEN s ELSE ApplyRun(ApplyEdit(s, Head(run)), Tail(run))

RECURSIVE AllRecorded(_, _)
AllRecorded(s, run) ==
    \/ run = <<>>
    \/ Recorded(s, Head(run)) /\ AllRecorded(ApplyEdit(s, Head(run)), Tail(run))

RECURSIVE UndoTimes(_, _)
UndoTimes(s, n) == IF n = 0 THEN s ELSE UndoTimes(undo(s), n - 1)

RECURSIVE RedoTimes(_, _)
RedoTimes(s, n) == IF n = 0 THEN s ELSE RedoTimes(redo(s), n - 1)

Runs(s) == UNION {[1..n -> Edits(s)] : n \in 1..MaxEdits}

\* No gesture is in progress, playback is stopped and a frame is open.
Quiescent(s) ==
    ~s.crashed /\ ~s.drawing /\ ~s.left_down /\ ~s.is_playing /\ ValidIndex(s)

StoredBuffer(s) == s.frames[s.current_frame_index + 1]

DisplayedBuffer(s) == s.pixmap

\* Undoing a run of recorded edits gives back the frame the run started on,
\* and redoing it the frame the run ended on: for the frame as stored in the
\* frame list, and for the frame as displayed.
RoundTripStored(s) ==
    \A run \in Runs(s) :
        AllRecorded(s, run) =>
            LET s1 == ApplyRun(s, run)
                s2 == UndoTimes(s1, Len(run))
                s3 == RedoTimes(s2, Len(run))
            IN  /\ ~s2.crashed
                /\ StoredBuffer(s2) = StoredBuffer(s)
                /\ StoredBuffer(s3) = StoredBuffer(s1)

RoundTripDisplayed(s) ==
    \A run \in Runs(s) :
        AllRecorded(s, run) =>
            LET s1 == ApplyRun(s, run)
                s2 == UndoTimes(s1, Len(run))
                s3 == RedoTimes(s2, Len(run))
            IN  /\ ~s2.crashed
                /\ DisplayedBuffer(s2) = DisplayedBuffer(s)
                /\ DisplayedBuffer(s3) = DisplayedBuffer(s1)

(***************************************************************************)
(* C1.  For any run of N recorded edits (strokes, fills, Clear Frame) on   *)
(* the active frame, N undos give back the frame's buffer as it was before *)
(* the first edit and N redos after that give the buffer as it was after   *)
(* the last edit.  Stated for both readings of "the frame's buffer": the   *)
(* claim holds in a state if it holds there for the stored buffer or for   *)
(* the displayed one.                                                      *)
(***************************************************************************)
C1_UndoRedoRoundTrip ==
    Quiescent(St) => RoundTripStored(St) \/ RoundTripDisplayed(St)

(***************************************************************************)
(* C2.  A push after undo drops every command after the index: the step    *)
(* keeps exactly the commands up to the old index, appends the new one and *)
(* leaves redo unavailable; undo and redo never change the command list,   *)
(* and a redo applies the "after" of the command that follows the index in *)
(* that list, so a dropped command is never applied again.                 *)
(***************************************************************************)
PushOps ==
    {"mousePressEvent", "mouseReleaseEvent", "clear_current_frame",
     "paste_image_on_current_frame"}

C2_PushTruncates ==
    [][/\ (last'.op \in PushOps /\ undo_stack' # undo_stack) =>
            /\ undo_stack'.index = undo_stack.index + 1
            /\ undo_stack'.index = Len(undo_stack'.commands)
            /\ SubSeq(undo_stack'.commands, 1, undo_stack.index)
                 = SubSeq(undo_stack.commands, 1, undo_stack.index)
            /\ ~canRedo(St')
       /\ (last'.op \in {"undo", "redo"} /\ undo_stack' # undo_stack) =>
            undo_stack'.commands = undo_stack.commands
       /\ (last'.op = "redo" /\ undo_stack' # undo_stack /\ ~crashed') =>
            LET cmd == undo_stack'.commands[undo_stack'.index]
            IN  /\ undo_stack'.index = undo_stack.index + 1
                /\ frames'[cmd.frame_index + 1] = cmd.pixmap_after
      ]_vars

\* A command was pushed while redo was available, and redo is gone.
C2_Witness ==
    /\ last.op \in PushOps /\ last.canRedo
    /\ undo_stack.index = Len(undo_stack.commands)
    /\ ~canRedo(St)

(***************************************************************************)
(* C3.  As claimed: whenever the active frame index changes, by any        *)
(* operation, the undo stack is empty right afterwards.                    *)
(***************************************************************************)
StackEmpty(stack) == stack.commands = <<>> /\ stack.index = 0

C3_AsClaimed ==
    [][current_frame_index' # current_frame_index => StackEmpty(undo_stack')]_vars

(***************************************************************************)
(* C3, amended.  Whenever set_current_frame, add_new_frame,                *)
(* duplicate_current_frame, delete_current_frame or new_animation changes  *)
(* the active frame index, the undo stack is empty right afterwards; the   *)
(* playback tick next_frame changes the index and leaves the stack as it   *)
(* was.                                                                    *)
(***************************************************************************)
C3_SwitchClearsHistory ==
    [][current_frame_index' # current_frame_index =>
          IF last'.op = "next_frame"
          THEN undo_stack' = undo_stack
          ELSE StackEmpty(undo_stack')]_vars

\* set_current_frame switched away from a frame that had history.
C3_Witness ==
    /\ last.op = "set_current_frame" /\ last.canUndo
    /\ StackEmpty(undo_stack)

(***************************************************************************)
(* The region a fill is said to cover, stated without the labelling that   *)
(* flood_fill uses: the least set of pixels that holds p and every pixel   *)
(* of p's colour next to one of its pixels along a row or a column.        *)
(***************************************************************************)
Adjacent4(q, r) ==
    \/ q[1] = r[1] /\ q[2] - r[2] \in {-1, 1}
    \/ q[2] = r[2] /\ q[1] - r[1] \in {-1, 1}

\* The straight RGBA colour a pixel reads as (QImage.pixelColor).
ColourAt(pm, q) == qUnpremultiply(pm[q])

Region(pm, p) ==
    LET same == {q \in DOMAIN pm : ColourAt(pm, q) = ColourAt(pm, p)}
        Closed(S) ==
            /\ p \in S
            /\ \A q \in S, r \in same : Adjacent4(q, r) => r \in S
    IN  {q \in same : \A S \in SUBSET same : Closed(S) => q \in S}

ChangedPixels(before, after) == {q \in DOMAIN before : after[q] # before[q]}

TopCommand == undo_stack.commands[undo_stack.index]

C5_FillStaysInside ==
    ~left_down =>
        \A p \in Pos(canvas_size) :
            LET s1 == FillClick(St, p)
                R == Region(pixmap, p)
                cur == current_frame_index + 1
            IN  /\ ChangedPixels(pixmap, s1.pixmap) \subseteq R
                /\ ChangedPixels(frames[cur], s1.frames[cur]) \subseteq R
                /\ Len(s1.frames) = Len(frames)
                /\ \A k \in 1..Len(frames) : k # cur => s1.frames[k] = frames[k]

\* A fill has recoloured a transparent pixel enclosed by black ones: the
\* black pixels and the other frame are as they were.
C5_Witness ==
    /\ undo_stack.index = 1
    /\ LET b == TopCommand.pixmap_before
           a == TopCommand.pixmap_after
           black == <<0, 0, 0, 255>>
       IN  /\ b[<<0, 0>>] = Transparent
           /\ \A q \in Pos(canvas_size) \ {<<0, 0>>} : b[q] = black /\ a[q] = black
           /\ a[<<0, 0>>] \notin {Transparent, black}
           /\ frames[current_frame_index + 1] = a
           /\ frames[1] \in OtherFrames

(***************************************************************************)
(* C6.  As claimed: a fill whose fill colour equals the colour of the      *)
(* clicked pixel changes nothing and records nothing, and so a second fill *)
(* at the same point with the same settings changes nothing and records    *)
(* nothing.                                                                *)
(***************************************************************************)
C6_AsClaimed ==
    ~left_down =>
        \A p \in Pos(canvas_size) :
            LET s1 == FillClick(St, p)
                s2 == FillClick(s1, p)
            IN  /\ ColourAt(pixmap, p) = SettingsColor(settings) =>
                       s1.pixmap = pixmap /\ s1.undo_stack = undo_stack
                /\ s2.pixmap = s1.pixmap
                /\ s2.undo_stack = s1.undo_stack

(***************************************************************************)
(* C7.  Every fill that changes the buffer pushes exactly one command, for *)
(* the active frame, whose "before" is the whole frame as the fill found   *)
(* it and whose "after" is the whole frame as the fill left it.            *)
(***************************************************************************)
C7_FillPushesOne ==
    [][(~left_down /\ left_down' /\ settings.tool = "fill" /\ pixmap' # pixmap) =>
          /\ undo_stack'.index = undo_stack.index + 1
          /\ undo_stack'.commands =
                Append(SubSeq(undo_stack.commands, 1, undo_stack.index),
                       [frame_index |-> current_frame_index,
                        pixmap_before |-> pixmap, pixmap_after |-> pixmap'])
          /\ frames'[current_frame_index + 1] = pixmap'
      ]_vars

\* A fill has just changed the buffer and its command is on the stack.
C7_Witness ==
    /\ last.op = "mousePressEvent" /\ settings.tool = "fill" /\ left_down
    /\ canUndo(St)
    /\ TopCommand.pixmap_before # TopCommand.pixmap_after
    /\ TopCommand.pixmap_after = pixmap

(***************************************************************************)
(* C8.  As claimed: the release that ends a stroke while playback is       *)
(* stopped pushes exactly one command, whatever happened between the press *)
(* and the release.                                                        *)
(***************************************************************************)
C8_AsClaimed ==
    [][(drawing /\ left_down /\ ~left_down' /\ ~is_playing) =>
          /\ undo_stack'.index = undo_stack.index + 1
          /\ Len(undo_stack'.commands) = undo_stack.index + 1
      ]_vars

(***************************************************************************)
(* C9.  As claimed: while playback is active no stroke, fill or paste      *)
(* pushes a command.                                                       *)
(***************************************************************************)
C9_AsClaimed ==
    [][~(/\ is_playing
         /\ undo_stack' # undo_stack
         /\ last'.op \in {"mousePressEvent", "mouseReleaseEvent",
                          "paste_image_on_current_frame"})]_vars

(***************************************************************************)
(* C10.  As claimed: for every command on the stack, undoing it and        *)
(* redoing it at once leaves its frame equal to the command's "after" and  *)
(* the stack and its index as they were.                                   *)
(***************************************************************************)
C10_AsClaimed ==
    (~crashed /\ canUndo(St)) =>
        LET s2 == redo(undo(St))
        IN  /\ ~s2.crashed
            /\ s2.frames[TopCommand.frame_index + 1] = TopCommand.pixmap_after
            /\ s2.undo_stack = undo_stack

(***************************************************************************)
(* C11.  As claimed: in every reachable state every buffer of the frame    *)
(* list has exactly the current canvas width and height.                   *)
(***************************************************************************)
C11_AsClaimed ==
    ~crashed => \A k \in 1..Len(frames) : DOMAIN frames[k] = Pos(canvas_size)

(***************************************************************************)
(* An edge drag as the user makes it: the cursor comes to the edge, the    *)
(* button goes down at `from`, the cursor passes over the points of        *)
(* `moves`, and the button comes up at `to`.                               *)
(***************************************************************************)
RECURSIVE DragMoves(_, _)
DragMoves(s, moves) ==
    IF moves = <<>> THEN s
    ELSE DragMoves(view_mouseMoveEvent(s, Head(moves), {}, {}), Tail(moves))

Drag(s, edge, from, moves, to) ==
    LET s0 == view_mouseMoveEvent(s, from, edge, {})
        s1 == view_mousePressEvent(s0, from)
    IN  view_mouseReleaseEvent(DragMoves(s1, moves), to)

\* The window is idle: no button held, no stroke in progress, not failed.
Idle(s) == ~s.crashed /\ ~s.left_down /\ ~s.drawing /\ ~s.is_panning

\* No move between press and release, or one move over any drag point.
AnyMoves == {<<>>} \cup {<<m>> : m \in DragPoints}

\* `new` is `old` with its content moved by (dx, dy) on a transparent
\* buffer of the given size.
MovedBy(old, new, size, dx, dy) ==
    /\ DOMAIN new = Pos(size)
    /\ \A q \in Pos(size) :
          LET o == <<q[1] - dx, q[2] - dy>>
          IN  new[q] = IF o \in DOMAIN old THEN old[o] ELSE Transparent

(***************************************************************************)
(* C12.  As claimed: dragging the right (bottom) edge outward by D = 1     *)
(* replaces every frame by a buffer one pixel wider (taller) in which the  *)
(* old pixels keep their value and place and the added ones are            *)
(* transparent; the number of frames and the active index stay.            *)
(***************************************************************************)
C12_AsClaimed ==
    Idle(St) =>
        \A side \in {"right", "bottom"}, moves \in AnyMoves :
            LET to == IF side = "right" THEN <<1, 0>> ELSE <<0, 1>>
                s1 == Drag(St, {side}, <<0, 0>>, moves, to)
                size == <<canvas_size[1] + to[1], canvas_size[2] + to[2]>>
            IN  /\ s1.canvas_size = size
                /\ Len(s1.frames) = Len(frames)
                /\ s1.current_frame_index = current_frame_index
                /\ \A k \in 1..Len(frames) :
                      MovedBy(frames[k], s1.frames[k], size, 0, 0)

C14_AsClaimed ==
    [][(canvas_view.resizing /\ canvas_size' # canvas_size) =>
          /\ undo_stack' = undo_stack
          /\ ~canUndo(St') /\ ~canRedo(St')
      ]_vars

(***************************************************************************)
(* C15.  Deleting a frame (when more than one exists) and resetting the    *)
(* animation leave the undo stack empty: no command is kept, undo and redo *)
(* are unavailable.                                                        *)
(***************************************************************************)
C15_DeleteAndResetClear ==
    ~crashed =>
        /\ LET s1 == new_animation(St, CanvasSize)
           IN  StackEmpty(s1.undo_stack) /\ ~canUndo(s1) /\ ~canRedo(s1)
        /\ (Len(frames) > 1 /\ current_frame_index >= 0) =>
              LET s1 == delete_current_frame(St)
              IN  /\ Len(s1.frames) = Len(frames) - 1
                  /\ StackEmpty(s1.undo_stack) /\ ~canUndo(s1) /\ ~canRedo(s1)

\* A frame was deleted while the stack held a command, and the stack is empty.
C15_Witness ==
    /\ last.op = "delete_current_frame" /\ last.canUndo
    /\ StackEmpty(undo_stack)

(***************************************************************************)
(* C16.  A fill click at a point outside the buffer (left of it, above it, *)
(* right of it or below it) changes no frame buffer and not the display,   *)
(* pushes no command and raises no error.                                  *)
(***************************************************************************)
OutOfBounds(size) ==
    {<<-1, 0>>, <<0, -1>>, <<size[1], 0>>, <<0, size[2]>>, <<size[1], size[2]>>}

C16_FillOutsideIgnored ==
    (~crashed /\ ~left_down) =>
        \A p \in OutOfBounds(canvas_size) :
            LET s1 == FillClick(St, p)
            IN  /\ s1.frames = frames
                /\ s1.pixmap = pixmap
                /\ s1.undo_stack = undo_stack
                /\ ~s1.crashed

\* The button is down after a fill click that pushed nothing, on a canvas
\* where every pixel differs from the fill colour: the click was outside.
C16_Witness ==
    /\ left_down /\ settings.tool = "fill"
    /\ pixmap_before_draw = pixmap
    /\ undo_stack.index = 0
    /\ \A q \in Pos(canvas_size) : ColourAt(pixmap, q) # SettingsColor(settings)

(***************************************************************************)
(* Events that can come between the press and the release of a stroke:     *)
(* mouse moves, tool keys, the playback toggle, playback ticks, undo and   *)
(* redo.                                                                   *)
(***************************************************************************)
Between(s) ==
    {mouseMoveEvent(s, cover) : cover \in {{}} \cup {{q} : q \in Pos(s.canvas_size)}}
        \cup {set_tool(s, tool) : tool \in Tools}
        \cup {toggle_playback(s), undo(s), redo(s)}
        \cup (IF s.is_playing THEN {next_frame(s)} ELSE {})

RECURSIVE AfterBetween(_, _)
AfterBetween(s, n) ==
    IF n = 0 \/ s.crashed THEN {s}
    ELSE {s} \cup UNION {AfterBetween(s1, n - 1) : s1 \in Between(s)}

(***************************************************************************)
(* C17.  As claimed: the command pushed at the release of a stroke has as  *)
(* "before" the displayed buffer at the press of that stroke, as "after"   *)
(* the displayed buffer at the release and as frame index the frame that   *)
(* was active at the press, whatever comes between press and release.      *)
(***************************************************************************)
C17_AsClaimed ==
    (Idle(St) /\ settings.tool # "fill") =>
        \A p \in Pos(canvas_size) :
            \A s2 \in AfterBetween(mousePressEvent(St, p), MaxBetween) :
                LET s3 == mouseReleaseEvent(s2)
                    cmd == s3.undo_stack.commands[s3.undo_stack.index]
                IN  (~s2.crashed /\ s3.undo_stack # s2.undo_stack) =>
                        /\ cmd.pixmap_before = pixmap
                        /\ cmd.pixmap_after = s2.pixmap
                        /\ cmd.frame_index = current_frame_index

(***************************************************************************)
(* C18.  As claimed: with a command at the index, undo stores its "before" *)
(* in the frame of its frame_index and moves the index back by one; with a *)
(* command after the index, redo stores its "after" and moves the index    *)
(* on; each leaves the other frames, the frame count, the command list and *)
(* the active index as they were, and does nothing without such a command. *)
(***************************************************************************)
C18_AsClaimed ==
    ~crashed =>
        /\ IF canUndo(St)
           THEN LET cmd == undo_stack.commands[undo_stack.index]
                    s1 == undo(St)
                IN  /\ s1.frames =
                          [frames EXCEPT ![cmd.frame_index + 1] = cmd.pixmap_before]
                    /\ s1.undo_stack =
                          [undo_stack EXCEPT !.index = undo_stack.index - 1]
                    /\ s1.current_frame_index = current_frame_index
           ELSE undo(St) = St
        /\ IF canRedo(St)
           THEN LET cmd == undo_stack.commands[undo_stack.index + 1]
                    s1 == redo(St)
                IN  /\ s1.frames =
                          [frames EXCEPT ![cmd.frame_index + 1] = cmd.pixmap_after]
                    /\ s1.undo_stack =
                          [undo_stack EXCEPT !.index = undo_stack.index + 1]
                    /\ s1.current_frame_index = current_frame_index
           ELSE redo(St) = St

(***************************************************************************)
(* The step pushed a command: one of the pushing handlers ran and moved    *)
(* the index onto a new last command.                                      *)
(***************************************************************************)
Pushed ==
    /\ last'.op \in PushOps
    /\ undo_stack' # undo_stack
    /\ undo_stack'.index = undo_stack.index + 1

PushedCommand == undo_stack'.commands[undo_stack'.index]

(***************************************************************************)
(* C19.  As claimed: when a command is pushed, the frame store already     *)
(* holds the command's "after" in the target frame, and the push writes no *)
(* frame buffer.                                                           *)
(***************************************************************************)
C19_AsClaimed ==
    [][Pushed =>
          /\ frames[PushedCommand.frame_index + 1] = PushedCommand.pixmap_after
          /\ frames' = frames
      ]_vars

(***************************************************************************)
(* C19, amended.  A push records the command and executes it: after the    *)
(* step the target frame of the store holds the command's "after", written *)
(* by the command's redo, and no other frame has changed.  The caller need *)
(* not have written the store before.                                      *)
(***************************************************************************)
C19_PushApplies ==
    [][Pushed =>
          /\ frames'[PushedCommand.frame_index + 1] = PushedCommand.pixmap_after
          /\ \A k \in 1..Len(frames) :
                k # PushedCommand.frame_index + 1 => frames'[k] = frames[k]
          /\ Len(frames') = Len(frames)
      ]_vars

\* A stroke that changed the display was pushed, and the store holds its
\* "after".
C19_Witness ==
    /\ last.op = "mouseReleaseEvent" /\ canUndo(St) /\ ~canRedo(St)
    /\ TopCommand.pixmap_before # TopCommand.pixmap_after
    /\ frames[TopCommand.frame_index + 1] = TopCommand.pixmap_after

(***************************************************************************)
(* The frames of s that differ in t (both lists have the same length for   *)
(* the handlers below).                                                    *)
(***************************************************************************)
ChangedFrames(s, t) ==
    {k \in 1..Len(s.frames) : k > Len(t.frames) \/ t.frames[k] # s.frames[k]}

\* The outcomes of the handlers that edit the active frame, as the actions
\* apply them: press (fill click or stroke start), move, release, clear,
\* paste.
ActiveEdits(s) ==
    {mousePressEvent(s, p) : p \in {q \in ClickPoints : ~s.left_down}}
    \cup {mouseMoveEvent(s, cover) :
            cover \in {c \in Covers : /\ ~s.is_panning /\ s.drawing
                                     /\ s.left_down /\ s.settings.tool # "fill"}}
    \cup (IF s.left_down THEN {mouseReleaseEvent(s)} ELSE {})
    \cup (IF s.current_frame_index >= 0
          THEN {clear_current_frame(s)}
               \cup {paste_image_on_current_frame(s, cover) : cover \in Covers}
          ELSE {})

\* Stroke, fill, clear and paste change no frame but the active one.
C20_EditsActiveFrame ==
    \A r \in ActiveEdits(St) :
        /\ Len(r.frames) = Len(frames)
        /\ ChangedFrames(St, r) \subseteq {current_frame_index + 1}

(***************************************************************************)
(* C20.  As claimed: every stroke, fill, clear, paste, undo and redo       *)
(* changes no frame buffer but the one at the active frame index.          *)
(***************************************************************************)
C20_AsClaimed ==
    ~crashed =>
        /\ C20_EditsActiveFrame
        /\ ChangedFrames(St, undo(St)) \subseteq {current_frame_index + 1}
        /\ ChangedFrames(St, redo(St)) \subseteq {current_frame_index + 1}

(***************************************************************************)
(* C20, amended.  Stroke, fill, clear and paste change no frame buffer but *)
(* the one at the active frame index.  Undo and redo change no frame       *)
(* buffer but the one at the frame index stored in the command they apply, *)
(* which need not be the active frame.                                     *)
(***************************************************************************)
C20_OneFrameChanged ==
    ~crashed =>
        /\ C20_EditsActiveFrame
        /\ canUndo(St) =>
              /\ Len(undo(St).frames) = Len(frames)
              /\ ChangedFrames(St, undo(St)) \subseteq
                    {undo_stack.commands[undo_stack.index].frame_index + 1}
        /\ canRedo(St) =>
              /\ Len(redo(St).frames) = Len(frames)
              /\ ChangedFrames(St, redo(St)) \subseteq
                    {undo_stack.commands[undo_stack.index + 1].frame_index + 1}
        /\ ~canUndo(St) => undo(St).frames = frames
        /\ ~canRedo(St) => redo(St).frames = frames

\* A command of a frame that is not the active one has been undone, and the
\* frame it names holds the command's "before".
C20_Witness ==
    /\ last.op = "undo" /\ canRedo(St)
    /\ LET cmd == undo_stack.commands[undo_stack.index + 1]
       IN  /\ cmd.frame_index # current_frame_index
           /\ cmd.pixmap_before # cmd.pixmap_after
           /\ frames[cmd.frame_index + 1] = cmd.pixmap_before
           /\ ChangedFrames(St, redo(St)) = {cmd.frame_index + 1}

(***************************************************************************)
(* C21.  As claimed: whenever playback is stopped and no stroke is in      *)
(* progress, the displayed pixmap equals the stored frames[current], so    *)
(* that Clear Frame's "before" snapshot and an image paste, which read the *)
(* stored frame, see every mark on the display.                            *)
(***************************************************************************)
C21_AsClaimed ==
    (~crashed /\ ~is_playing /\ ~drawing /\ ValidIndex(St)) =>
        /\ DisplayedBuffer(St) = StoredBuffer(St)
        /\ ClearBefore(St) = DisplayedBuffer(St)

\* Every command on the stack names a frame of the list.
EntriesInRange(s) ==
    \A i \in 1..Len(s.undo_stack.commands) :
        /\ 0 <= s.undo_stack.commands[i].frame_index
        /\ s.undo_stack.commands[i].frame_index < Len(s.frames)

(***************************************************************************)
(* C22.  Every command on the undo stack has a frame index inside the      *)
(* frame list; a command is pushed for the frame that is active at the     *)
(* push; and a step that inserts or removes a frame leaves the stack       *)
(* empty, so that a command's index names the frame the edit was made on   *)
(* for as long as the command is on the stack.                             *)
(***************************************************************************)
C22_EntriesStayValid ==
    [][/\ EntriesInRange(St')
       /\ Pushed => /\ PushedCommand.frame_index = current_frame_index
                    /\ current_frame_index' = current_frame_index
                    /\ Len(frames') = Len(frames)
       /\ Len(frames') # Len(frames) => StackEmpty(undo_stack')
      ]_vars

\* A frame was inserted while the stack held a command, and the stack is
\* empty.
C22_Witness ==
    /\ last.op \in {"add_new_frame", "duplicate_current_frame"}
    /\ last.canUndo
    /\ Len(frames) = 2
    /\ StackEmpty(undo_stack)

\* The frame list is not empty and the active index is inside it.
HasActiveFrame(s) == Len(s.frames) >= 1 /\ ValidIndex(s)

\* The outcomes of the operations that move the active index or replace the
\* frame list: add, duplicate, delete, select frame, playback tick, new
\* animation, and a resize by any drag of any edge.
FrameOps(s) ==
    {add_new_frame(s), duplicate_current_frame(s), delete_current_frame(s),
     next_frame(s), new_animation(s, CanvasSize)}
    \cup {set_current_frame(s, index) : index \in 0..MaxFrames}
    \cup {finalize_canvas_resize(s, p0, p1, edge) :
            p0 \in DragPoints, p1 \in DragPoints, edge \in Edges}

(***************************************************************************)
(* C23.  After construction and after every completed operation (add,      *)
(* duplicate, delete, select frame, playback tick, new animation, resize)  *)
(* the frame list is not empty and 0 <= current_frame_index < len(frames). *)
(***************************************************************************)
C23_ActiveIndexValid ==
    /\ HasActiveFrame(St)
    /\ \A r \in FrameOps(St) : HasActiveFrame(r)

\* The last frame of two was deleted and the index moved back onto the
\* frame that is left.
C23_Witness ==
    /\ last.op = "delete_current_frame"
    /\ Len(frames) = 1 /\ current_frame_index = 0 /\ pixmap = frames[1]

\* The canvas size a drag of `edge` from p0 to p1 is to give: each dragged
\* side moves by p1 - p0, and no side gets shorter than the minimum.
SizeAfterDrag(size, edge, p0, p1) ==
    LET dx == p1[1] - p0[1]
        dy == p1[2] - p0[2]
        w == IF "left" \in edge THEN size[1] - dx
             ELSE IF "right" \in edge THEN size[1] + dx ELSE size[1]
        h == IF "top" \in edge THEN size[2] - dy
             ELSE IF "bottom" \in edge THEN size[2] + dy ELSE size[2]
    IN  <<Max(w, MinSide), Max(h, MinSide)>>

(***************************************************************************)
(* C24.  As claimed: for an edge drag (press at p0, any moves, release at  *)
(* p1) the start position handed to finalize_canvas_resize is p0: the      *)
(* state after the drag is the one finalize_canvas_resize(p0, p1) gives,   *)
(* and the canvas changes by p1 - p0 along the dragged axis (subject to    *)
(* the minimum), whatever moves came in between.                           *)
(***************************************************************************)
C24_AsClaimed ==
    Idle(St) =>
        \A edge \in Edges, p0 \in DragPoints, p1 \in DragPoints,
           moves \in AnyMoves :
            LET s1 == Drag(St, edge, p0, moves, p1)
                s2 == finalize_canvas_resize(St, p0, p1, edge)
            IN  /\ s1.canvas_size = SizeAfterDrag(canvas_size, edge, p0, p1)
                /\ s1.canvas_size = s2.canvas_size
                /\ s1.frames = s2.frames

(***************************************************************************)
(* C25.  The canvas is never smaller than the minimum in either dimension. *)
(* A drag of the left edge that would take the width below the minimum     *)
(* gives the minimum width, and every frame's content is drawn shifted by  *)
(* old width - new width, the new width being the clamped one.             *)
(***************************************************************************)
C25_MinimumKept ==
    /\ canvas_size[1] >= MinSide /\ canvas_size[2] >= MinSide
    /\ ~crashed =>
          \A p1 \in ReleasePoints :
              canvas_size[1] - p1[1] < MinSide =>
                  LET s1 == finalize_canvas_resize(St, <<0, 0>>, p1, {"left"})
                      size == <<MinSide, canvas_size[2]>>
                  IN  /\ s1.canvas_size = size
                      /\ size # canvas_size =>
                            \A k \in 1..Len(frames) :
                                MovedBy(frames[k], s1.frames[k], size,
                                        canvas_size[1] - MinSide, 0)

\* A release has brought a wider canvas to the minimum width.
C25_Witness ==
    /\ last.op = "view_mouseReleaseEvent"
    /\ canvas_size = <<MinSide, MinSide>>
    /\ \A k \in 1..Len(frames) : DOMAIN frames[k] = Pos(canvas_size)

(***************************************************************************)
(* C26.  As claimed: every command on the undo stack records a change, its *)
(* "before" differs from its "after".                                      *)
(***************************************************************************)
C26_AsClaimed ==
    \A i \in 1..Len(undo_stack.commands) :
        undo_stack.commands[i].pixmap_before # undo_stack.commands[i].pixmap_after

\* A state, and the states with one frame more that Add Frame and a frame
\* selection make of it.
Reels(s) ==
    {s, add_new_frame(s)}
    \cup {set_current_frame(add_new_frame(s), index) : index \in 0..Len(s.frames)}

(***************************************************************************)
(* C27.  delete_current_frame, with more than one frame and no live        *)
(* recording, removes the active frame and no other, keeps the buffers and *)
(* the order of the others, and sets the active index to                   *)
(* min(old index, new length - 1).  With one frame only, or while a live   *)
(* recording is active, it changes neither the frames, nor the active      *)
(* index, nor the undo stack.                                              *)
(***************************************************************************)
C27_DeleteRemovesActive ==
    ~crashed =>
        \A s \in Reels(St) :
            LET r == delete_current_frame(s)
                n == Len(s.frames)
                at == s.current_frame_index + 1
            IN  IF n > 1 /\ ~s.is_recording
                THEN /\ Len(r.frames) = n - 1
                     /\ \A k \in 1..(n - 1) :
                           r.frames[k] = IF k < at THEN s.frames[k]
                                                   ELSE s.frames[k + 1]
                     /\ r.current_frame_index
                          = IF s.current_frame_index <= n - 2
                            THEN s.current_frame_index ELSE n - 2
                ELSE /\ r.frames = s.frames
                     /\ r.current_frame_index = s.current_frame_index
                     /\ r.undo_stack = s.undo_stack

\* The active frame of two was deleted while the stack held a command: the
\* frame that is left is drawn on, shown, and the stack is empty.
C27_Witness ==
    /\ last.op = "delete_current_frame" /\ last.canUndo
    /\ Len(frames) = 1 /\ StackEmpty(undo_stack)
    /\ frames[1] # BlankPixmap(canvas_size)
    /\ pixmap = frames[1]
    /\ ~is_recording

(***************************************************************************)
(* C28.  add_new_frame inserts one fully transparent frame of the canvas   *)
(* size right after the active frame and makes it the active frame; the    *)
(* frames before and after it keep their buffers and their order, and the  *)
(* frame that was active holds what was displayed when add_new_frame was   *)
(* called.                                                                 *)
(***************************************************************************)
C28_AddInsertsBlank ==
    ~crashed =>
        LET r == add_new_frame(St)
            n == Len(frames)
            at == current_frame_index + 1
        IN  /\ Len(r.frames) = n + 1
            /\ DOMAIN r.frames[at + 1] = Pos(canvas_size)
            /\ \A q \in Pos(canvas_size) : r.frames[at + 1][q] = Transparent
            /\ r.current_frame_index = current_frame_index + 1
            /\ r.pixmap = r.frames[at + 1]
            /\ \A k \in 1..n :
                  r.frames[IF k <= at THEN k ELSE k + 1]
                      = IF k = at THEN pixmap ELSE frames[k]

\* A frame was added in the middle of a stroke: the frame that was active
\* holds the marks of the stroke, the new one is blank and shown.
C28_Witness ==
    /\ last.op = "add_new_frame"
    /\ drawing /\ left_down /\ ~is_playing
    /\ Len(frames) = 2 /\ current_frame_index = 1
    /\ frames[1] # pixmap_before_draw /\ pixmap_before_draw # None
    /\ frames[2] = BlankPixmap(canvas_size)
    /\ pixmap = frames[2]

\* The state after n timer ticks.
RECURSIVE Ticks(_, _)
Ticks(s, n) == IF n = 0 THEN s ELSE Ticks(next_frame(s), n - 1)

\* One tick from s: the index advances by one modulo the number of frames,
\* the frame that was active holds what was displayed, the other frames are
\* as they were and the new active frame is displayed.
TickAdvances(s) ==
    LET r == next_frame(s)
        n == Len(s.frames)
    IN  /\ r.current_frame_index
             = IF s.current_frame_index = n - 1 THEN 0
               ELSE s.current_frame_index + 1
        /\ Len(r.frames) = n
        /\ \A k \in 1..n :
              r.frames[k] = IF k = s.current_frame_index + 1
                            THEN s.pixmap ELSE s.frames[k]
        /\ r.pixmap = r.frames[r.current_frame_index + 1]
        /\ r.is_playing

\* In len(frames) consecutive ticks every frame is active exactly once, and
\* the last of them brings back the frame the ticks started on.
RoundVisitsAll(s) ==
    LET n == Len(s.frames)
    IN  /\ \A k \in 0..(n - 1) :
              Cardinality({j \in 1..n : Ticks(s, j).current_frame_index = k}) = 1
        /\ Ticks(s, n).current_frame_index = s.current_frame_index

(***************************************************************************)
(* C29.  While playback is active each timer tick moves the active index   *)
(* to (index + 1) mod len(frames) after storing the displayed pixmap, with *)
(* the marks drawn during playback, in the frame that was active; in       *)
(* len(frames) consecutive ticks every frame is active exactly once; and   *)
(* with a timer that keeps ticking every frame becomes active again,       *)
(* unless playback is stopped or the frame is deleted first.               *)
(***************************************************************************)
C29_TicksCycle ==
    /\ [](\A s \in Reels(St) :
            (s.is_playing /\ ~s.crashed) => TickAdvances(s) /\ RoundVisitsAll(s))
    /\ \A k \in 0..(MaxFrames - 1) :
          (is_playing /\ k < Len(frames))
              ~> (current_frame_index = k \/ ~is_playing \/ ~(k < Len(frames)))

\* A tick during playback has stored a mark drawn on the frame shown
\* before it: the frame left behind is drawn on, no command records it, and
\* the other frame is shown.
C29_Witness ==
    /\ last.op = "next_frame" /\ is_playing
    /\ Len(frames) = 2 /\ current_frame_index = 0
    /\ frames[2] # BlankPixmap(canvas_size)
    /\ StackEmpty(undo_stack)
    /\ pixmap = frames[1]

(***************************************************************************)
(* C30.  As claimed: every mark of a spray burst, before the waver jitter, *)
(* lies within the disc of radius 1.5 x size round the centre of the       *)
(* burst: its Euclidean distance from the centre is at most 1.5 x size.    *)
(***************************************************************************)
C30_AsClaimed ==
    spray.made > 0 =>
        LET dx == spray.point[1] - spray.center[1] * SprayUnit
            dy == spray.point[2] - spray.center[2] * SprayUnit
        IN  dx * dx + dy * dy <= SprayRadius(spray.size) * SprayRadius(spray.size)

====
